---- MODULE Spec2Model ----
(***************************************************************************)
(* Token-based session lifecycle and ownership gate of the marketplace     *)
(* backend: controllers/user (register, login, refresh-token, logout,      *)
(* deleteUser, changeUserRole, the user listings), controllers/product     *)
(* (createProduct, updateProduct, deleteProduct, the product listings),    *)
(* controllers/admin, controllers/ad, controllers/category and             *)
(* middleware/auth (protect, admin).                                       *)
(*                                                                         *)
(* Every handler is an async function; each `await` on the document store  *)
(* is one step of the request, so steps of different requests interleave.  *)
(* Time is counted in seconds.                                             *)
(***************************************************************************)
EXTENDS Integers, Sequences, FiniteSets, TLC

\* ---- bounds ------------------------------------------------------------
NUsers == 2
NReq == 2
MaxTokens == 3
MaxTicks == 2
MaxProducts == 2

\* ---- program constants ---------------------------------------------------
AccessTTL == 3600
RefreshTTL == 604800

UserIds == 1..NUsers
Reqs == 1..NReq
ProdId == 1
AdId == 1
CatId == 1

NoTok == 0
BogusTok == -1
NoDate == -1
NoUser == 0

\* Offsets by which "the same wall-clock time seven calendar days later"
\* differs from 7 * 24 h: a change of the local UTC offset in between.
DstShifts == {0 - AccessTTL, 0, AccessTTL}
TickSteps == {1, RefreshTTL - 1}

VARIABLES users, product, ad, category, req, resp, issued, now, ticks

vars == <<users, product, ad, category, req, resp, issued, now, ticks>>

\* ---- the credential store ------------------------------------------------
AbsentUser ==
  [exists |-> FALSE, role |-> "user", isActive |-> FALSE,
   refreshToken |-> NoTok, refreshTokenExpiry |-> NoDate]

\* User.create with the five body fields: role and isActive take the schema
\* defaults, the refresh-token fields are unset.
NewUser ==
  [exists |-> TRUE, role |-> "user", isActive |-> TRUE,
   refreshToken |-> NoTok, refreshTokenExpiry |-> NoDate]

SeededAdmin == [NewUser EXCEPT !.role = "admin"]

AbsentProduct == [exists |-> FALSE, publisher |-> NoUser, isActive |-> FALSE, rev |-> 0]

\* An ad document: cloud tells whether its image URL contains
\* 'cloudinary.com', rev changes with every update of the document.
AbsentAd == [exists |-> FALSE, cloud |-> FALSE, rev |-> 0]

SeededAd == [exists |-> TRUE, cloud |-> TRUE, rev |-> 0]

\* A category document, and how many product documents name it as their
\* category (what Product.countDocuments({ category: id }) returns).
SeededCategory == [exists |-> TRUE, products |-> 0]

\* A request in flight: the handler, the await it is suspended at, req.user
\* (id and role as protect loaded them) or the loaded document, and the
\* route parameter or body field it works on; body is the role named in the
\* body of PUT /users/:id/role.
IdleReq ==
  [op |-> "none", pc |-> "idle", user |-> NoUser, role |-> "none",
   arg |-> 0, canon |-> TRUE, body |-> "none"]

\* The response sent last; success is the body's success field ("absent":
\* the body has none), products the ids in the body's products array.
NoResp ==
  [op |-> "none", status |-> 0, msg |-> "none", err |-> "none", user |-> NoUser,
   role |-> "none", arg |-> 0, canon |-> TRUE, out |-> NoTok, success |-> "absent",
   products |-> {}]

\* ---- tokens --------------------------------------------------------------
\* crypto.randomBytes(40).toString('hex'): a value no earlier call returned.
\* The n-th token pair handed out is numbered n; issued[n] records who got it.
NewRefreshToken == Len(issued) + 1

\* The expiry without the seven days added.
ExpiryIsNow(t) == t

\* new Date(Date.now() + 7 * 24 * 60 * 60 * 1000)
ExpiryFromNow(t) == t + RefreshTTL

\* d = new Date(); d.setDate(d.getDate() + 7): seven calendar days later in
\* local time, shift being the change of the UTC offset over those days.
CalendarExpiry(t, shift) == t + RefreshTTL + shift

\* rl: the role claim of the access token signed beside it, user.role of the
\* document the handler holds.
IssueRec(u, how, from, rl) ==
  [uid |-> u, by |-> how, from |-> from, iat |-> now, tok |-> NewRefreshToken,
   role |-> rl]

\* A verification that ignores the exp claim.
AccessTokenNeverExpires(at) == at \in 1..Len(issued)

\* jwt.verify: signature and exp claim (exp = iat + 1h; rejected once the
\* clock reaches exp).
AccessTokenVerifies(at) ==
  /\ at \in 1..Len(issued)
  /\ now < issued[at].iat + AccessTTL

\* The filter without its refreshToken field.
MatchesExpiryOnly(u, tok) ==
  /\ users[u].exists
  /\ users[u].refreshTokenExpiry # NoDate
  /\ users[u].refreshTokenExpiry > now

\* The filter without its refreshTokenExpiry field.
MatchesTokenOnly(u, tok) ==
  /\ users[u].exists
  /\ users[u].refreshToken = tok

\* User.findOne({ refreshToken, refreshTokenExpiry: { $gt: new Date() } })
MatchesRefresh(u, tok) ==
  /\ users[u].exists
  /\ users[u].refreshToken = tok
  /\ users[u].refreshTokenExpiry # NoDate
  /\ users[u].refreshTokenExpiry > now

FindByRefreshToken(tok) == {u \in UserIds : MatchesRefresh(u, tok)}

Min(S) == CHOOSE x \in S : \A y \in S : x <= y

\* No response is on its way out: res.json ends a step, and the model lets it
\* reach the client before the next step of any request.
Quiet == resp = NoResp

\* A new request takes the first slot that is not in use.
Free(r) ==
  /\ Quiet
  /\ req[r].pc = "idle"
  /\ \A q \in Reqs : q < r => req[q].pc # "idle"

\* res.status(code).json({ message: m, refreshToken: tok }) by request q;
\* err is the body's error field where the handler sets one. The bodies
\* written by the handlers below say success: true with 200 and 201 and
\* success: false with every other status, the two exceptions overriding it.
Reply(q, code, m, tok) ==
  [op |-> q.op, status |-> code, msg |-> m, err |-> "none", user |-> q.user,
   role |-> q.role, arg |-> q.arg, canon |-> q.canon, out |-> tok,
   success |-> IF code \in {200, 201} THEN "true" ELSE "false",
   products |-> {}]

\* Request r answers and ends.
Finish(r, code, m, tok) ==
  /\ resp' = Reply(req[r], code, m, tok)
  /\ req' = [req EXCEPT ![r] = IdleReq]

\* A request answered at its first step never occupies r.
Refuse(q, code, m) ==
  /\ resp' = Reply(q, code, m, NoTok)
  /\ UNCHANGED req

\* ---- Init ----------------------------------------------------------------
\* A store seeded with one admin account and one ad; the second account and
\* the product may or may not be there yet.
Init ==
  /\ users \in {f \in [UserIds -> {AbsentUser, NewUser, SeededAdmin}] :
                  /\ f[1] = SeededAdmin
                  /\ \A u \in UserIds \ {1} : f[u] \in {AbsentUser, NewUser}
                  /\ \A u \in UserIds : u > 2 => f[u] = AbsentUser}
  /\ product \in {AbsentProduct} \cup
                 {[exists |-> TRUE, publisher |-> p, isActive |-> TRUE, rev |-> 0] :
                    p \in {u \in UserIds : users[u].exists}}
  /\ ad = SeededAd
  /\ category = SeededCategory
  /\ req = [r \in Reqs |-> IdleReq]
  /\ resp = NoResp
  /\ issued = <<>>
  /\ now = 0
  /\ ticks = 0

\* ---- the clock -----------------------------------------------------------
Tick(d) ==
  /\ Quiet
  /\ ticks < MaxTicks
  /\ now' = now + d
  /\ ticks' = ticks + 1
  /\ UNCHANGED <<users, product, req, resp, issued, ad, category>>

\* The response reaches the client.
Deliver ==
  /\ ~Quiet
  /\ resp' = NoResp
  /\ UNCHANGED <<users, product, req, issued, now, ticks, ad, category>>

\* Requests that have passed their lookup and will hand out a token pair.
Issuing == {r \in Reqs : req[r].op \in {"register", "login", "refresh"}}

TokensLeft == Len(issued) + Cardinality(Issuing) < MaxTokens

Start(o, a) == [IdleReq EXCEPT !.op = o, !.arg = a]

\* ---- POST /users/register ------------------------------------------------
\* User.findOne({ email }); the account with email e has id e.
RegisterFind(r, e) ==
  /\ Free(r)
  /\ IF users[e].exists
       THEN Refuse(Start("register", e), 400, "User with this email already exists")
       ELSE /\ TokensLeft
            /\ req' = [req EXCEPT ![r] = [Start("register", e) EXCEPT !.pc = "create"]]
            /\ UNCHANGED resp
  /\ UNCHANGED <<users, product, issued, now, ticks, ad, category>>

\* A register that takes the role from the body.
RegisterCreateWithRole(r) ==
  /\ Quiet
  /\ req[r].op = "register" /\ req[r].pc = "create"
  /\ IF users[req[r].arg].exists
       THEN /\ Finish(r, 500, "Failed to register user", NoTok)
            /\ UNCHANGED users
       ELSE /\ users' = [users EXCEPT ![req[r].arg] = [NewUser EXCEPT !.role = "admin"]]
            /\ req' = [req EXCEPT ![r].pc = "save", ![r].user = req[r].arg,
                                  ![r].role = "admin"]
            /\ UNCHANGED resp
  /\ UNCHANGED <<product, issued, now, ticks, ad, category>>

\* User.create: a second create for the same email is refused by the store.
RegisterCreate(r) ==
  /\ Quiet
  /\ req[r].op = "register" /\ req[r].pc = "create"
  /\ IF users[req[r].arg].exists
       THEN /\ Finish(r, 500, "Failed to register user", NoTok)
            /\ UNCHANGED users
       ELSE /\ users' = [users EXCEPT ![req[r].arg] = NewUser]
            /\ req' = [req EXCEPT ![r].pc = "save", ![r].user = req[r].arg,
                                  ![r].role = NewUser.role]
            /\ UNCHANGED resp
  /\ UNCHANGED <<product, issued, now, ticks, ad, category>>

\* generateRefreshToken(user); user.save(); 201 with both tokens.
RegisterSave(r, shift) ==
  /\ Quiet
  /\ req[r].op = "register" /\ req[r].pc = "save"
  /\ LET u == req[r].user
         tok == NewRefreshToken
     IN /\ users' = [users EXCEPT ![u].refreshToken = tok,
                                  ![u].refreshTokenExpiry = CalendarExpiry(now, shift)]
        /\ issued' = Append(issued, IssueRec(u, "register", NoTok, req[r].role))
        /\ Finish(r, 201, "ok", tok)
  /\ UNCHANGED <<product, now, ticks, ad, category>>

\* ---- POST /users/login ---------------------------------------------------
\* The handler without its isActive test.
LoginFindAnyAccount(r, e, pwOk) ==
  /\ Free(r)
  /\ IF ~users[e].exists \/ ~pwOk
       THEN Refuse(Start("login", e), 401, "Invalid email or password")
       ELSE /\ TokensLeft
            /\ req' = [req EXCEPT ![r] =
                 [Start("login", e) EXCEPT !.pc = "save", !.user = e,
                                            !.role = users[e].role]]
            /\ UNCHANGED resp
  /\ UNCHANGED <<users, product, issued, now, ticks, ad, category>>

\* findOne({ email }), comparePassword, the isActive check on the loaded
\* document.
LoginFind(r, e, pwOk) ==
  /\ Free(r)
  /\ IF ~users[e].exists \/ ~pwOk
       THEN Refuse(Start("login", e), 401, "Invalid email or password")
       ELSE IF ~users[e].isActive
         THEN Refuse([Start("login", e) EXCEPT !.user = e], 401,
                     "Your account has been deactivated")
         ELSE /\ TokensLeft
              /\ req' = [req EXCEPT ![r] =
                   [Start("login", e) EXCEPT !.pc = "save", !.user = e,
                                            !.role = users[e].role]]
              /\ UNCHANGED resp
  /\ UNCHANGED <<users, product, issued, now, ticks, ad, category>>

\* The handler without its user.save().
LoginSaveUnsaved(r) ==
  /\ Quiet
  /\ req[r].op = "login" /\ req[r].pc = "save"
  /\ issued' = Append(issued, IssueRec(req[r].user, "login", NoTok, req[r].role))
  /\ Finish(r, 200, "ok", NewRefreshToken)
  /\ UNCHANGED <<users, product, now, ticks, ad, category>>

\* The handler storing the token without its expiry.
LoginSaveTokenOnly(r) ==
  /\ Quiet
  /\ req[r].op = "login" /\ req[r].pc = "save"
  /\ users' = [users EXCEPT ![req[r].user].refreshToken = NewRefreshToken]
  /\ issued' = Append(issued, IssueRec(req[r].user, "login", NoTok, req[r].role))
  /\ Finish(r, 200, "ok", NewRefreshToken)
  /\ UNCHANGED <<product, now, ticks, ad, category>>

\* user.refreshToken = ...; user.refreshTokenExpiry = ...; user.save(); 200.
LoginSave(r) ==
  /\ Quiet
  /\ req[r].op = "login" /\ req[r].pc = "save"
  /\ LET u == req[r].user
         tok == NewRefreshToken
     IN /\ users' = [users EXCEPT ![u].refreshToken = tok,
                                  ![u].refreshTokenExpiry = ExpiryFromNow(now)]
        /\ issued' = Append(issued, IssueRec(u, "login", NoTok, req[r].role))
        /\ Finish(r, 200, "ok", tok)
  /\ UNCHANGED <<product, now, ticks, ad, category>>

\* ---- POST /users/refresh-token -------------------------------------------
RefreshFind(r, tok) ==
  /\ Free(r)
  /\ IF tok = NoTok
       THEN Refuse(Start("refresh", tok), 400, "Refresh token is required")
       ELSE IF FindByRefreshToken(tok) = {}
         THEN Refuse(Start("refresh", tok), 401, "Invalid or expired refresh token")
         ELSE /\ TokensLeft
              /\ req' = [req EXCEPT ![r] =
                   [Start("refresh", tok) EXCEPT !.pc = "save",
                      !.user = Min(FindByRefreshToken(tok)),
                      !.role = users[Min(FindByRefreshToken(tok))].role]]
              /\ UNCHANGED resp
  /\ UNCHANGED <<users, product, issued, now, ticks, ad, category>>

\* The handler without its user.save(): the new pair is returned, the stored
\* token stays.
RefreshSaveUnsaved(r) ==
  /\ Quiet
  /\ req[r].op = "refresh" /\ req[r].pc = "save"
  /\ issued' = Append(issued, IssueRec(req[r].user, "refresh", req[r].arg, req[r].role))
  /\ Finish(r, 200, "ok", NewRefreshToken)
  /\ UNCHANGED <<users, product, now, ticks, ad, category>>

\* The handler with a save that is dropped when the stored token is no longer
\* the presented one: the first writer wins.
RefreshSaveFirstWins(r) ==
  /\ Quiet
  /\ req[r].op = "refresh" /\ req[r].pc = "save"
  /\ LET u == req[r].user
         tok == NewRefreshToken
     IN /\ users' = IF users[u].refreshToken = req[r].arg
                       THEN [users EXCEPT ![u].refreshToken = tok,
                                          ![u].refreshTokenExpiry = ExpiryFromNow(now)]
                       ELSE users
        /\ issued' = Append(issued, IssueRec(u, "refresh", req[r].arg, req[r].role))
        /\ Finish(r, 200, "ok", tok)
  /\ UNCHANGED <<product, now, ticks, ad, category>>

\* user.refreshToken = newRefreshToken; user.refreshTokenExpiry = ...;
\* user.save(); 200 with both tokens and the loaded user.
RefreshSave(r) ==
  /\ Quiet
  /\ req[r].op = "refresh" /\ req[r].pc = "save"
  /\ LET u == req[r].user
         tok == NewRefreshToken
     IN /\ users' = [users EXCEPT ![u].refreshToken = tok,
                                  ![u].refreshTokenExpiry = ExpiryFromNow(now)]
        /\ issued' = Append(issued, IssueRec(u, "refresh", req[r].arg, req[r].role))
        /\ Finish(r, 200, "ok", tok)
  /\ UNCHANGED <<product, now, ticks, ad, category>>

\* ---- middleware/auth: protect ---------------------------------------------
\* What a request sends as its bearer token: nothing, a string that is not a
\* JWT, a JWT this server did not sign, or the n-th access token handed out.
NoHeader == 0
BadToken == -1
MalformedToken == -2

\* The Authorization header: its first word, and what follows the first
\* space ("none": the request has no such header).
Schemes == {"none", "Basic", "Bearer", "BearerX"}

\* req.headers.authorization.startsWith('Bearer')
StartsWithBearer(s) == s \in {"Bearer", "BearerX"}

\* token = req.headers.authorization.split(' ')[1], left undefined without
\* a header that starts with 'Bearer'.
BearerToken(h) ==
  IF h.scheme # "none" /\ StartsWithBearer(h.scheme) THEN h.tok ELSE NoHeader

\* error.message of what jwt.verify throws ("none": it returns the payload).
VerifyError(at) ==
  IF at = MalformedToken THEN "jwt malformed"
  ELSE IF at \notin 1..Len(issued) THEN "invalid signature"
  ELSE IF now >= issued[at].iat + AccessTTL THEN "jwt expired"
  ELSE "none"

\* The routes mounted with protect, admin (routes/adminRoutes, routes/adRoutes,
\* routes/userRoutes).
AdminRoutes == {"adminGetAllUsers", "updateUserRole", "getAllUsers",
                "createAd", "updateAd", "deleteAd",
                "getAdminStats", "changeUserRole"}

\* The routes mounted without protect (routes/userRoutes; routes/adRoutes
\* as first written mounts POST / so).
OpenRoutes == {"updateUserProfile", "getUserById", "createAd"}

\* next() of protect: the admin gate where the route mounts it, else the
\* handler.
AfterProtect(o) == IF o \in AdminRoutes THEN "admin" ELSE "handler"

\* The answer of the inner catch: the body carries error.message.
RefuseWith(q, code, m, e) ==
  /\ resp' = [Reply(q, code, m, NoTok) EXCEPT !.err = e]
  /\ UNCHANGED req

\* The filter without its isActive field.
ProtectFindsById(u) == users[u].exists

\* User.findOne({ _id: decoded.id, isActive: true })
ProtectFinds(u) == users[u].exists /\ users[u].isActive

\* A protect that ends the stored session of the user it accepts.
ProtectTouching(r, o, at, target, cn) ==
  /\ Free(r)
  /\ LET q == [Start(o, target) EXCEPT !.canon = cn]
     IN IF at = NoHeader
          THEN Refuse(q, 401, "Not authorized to access this route") /\ UNCHANGED users
          ELSE IF ~AccessTokenVerifies(at)
            THEN /\ RefuseWith(q, 401, "Not authorized, token failed", VerifyError(at))
                 /\ UNCHANGED users
            ELSE IF ~ProtectFinds(issued[at].uid)
              THEN /\ Refuse([q EXCEPT !.user = issued[at].uid], 401,
                             "User not found or inactive")
                   /\ UNCHANGED users
              ELSE /\ req' = [req EXCEPT ![r] = [q EXCEPT !.pc = AfterProtect(o),
                                !.user = issued[at].uid,
                                !.role = users[issued[at].uid].role]]
                   /\ users' = [users EXCEPT ![issued[at].uid].refreshToken = NoTok,
                                             ![issued[at].uid].refreshTokenExpiry = NoDate]
                   /\ UNCHANGED resp
  /\ UNCHANGED <<product, issued, now, ticks, ad, category>>

\* A protect that takes the role from the token's payload.
ProtectTrustsTokenRole(r, o, at, target, cn) ==
  /\ Free(r)
  /\ LET q == [Start(o, target) EXCEPT !.canon = cn]
     IN IF at = NoHeader
          THEN Refuse(q, 401, "Not authorized to access this route")
          ELSE IF ~AccessTokenVerifies(at)
            THEN RefuseWith(q, 401, "Not authorized, token failed", VerifyError(at))
            ELSE IF ~ProtectFinds(issued[at].uid)
              THEN Refuse([q EXCEPT !.user = issued[at].uid], 401,
                          "User not found or inactive")
              ELSE /\ req' = [req EXCEPT ![r] = [q EXCEPT !.pc = AfterProtect(o),
                                !.user = issued[at].uid,
                                !.role = issued[at].role]]
                   /\ UNCHANGED resp
  /\ UNCHANGED <<users, product, issued, now, ticks, ad, category>>

\* at: the bearer token of the request (undefined, or one of the strings
\* above); target, cn: the :id route parameter and whether it is spelled as
\* the store prints ids (lower-case hex).
Protect(r, o, at, target, cn) ==
  /\ Free(r)
  /\ LET q == [Start(o, target) EXCEPT !.canon = cn]
     IN IF at = NoHeader
          THEN Refuse(q, 401, "Not authorized to access this route")
          ELSE IF ~AccessTokenVerifies(at)
            THEN RefuseWith(q, 401, "Not authorized, token failed", VerifyError(at))
            ELSE IF ~ProtectFinds(issued[at].uid)
              THEN Refuse([q EXCEPT !.user = issued[at].uid], 401,
                          "User not found or inactive")
              ELSE /\ req' = [req EXCEPT ![r] = [q EXCEPT !.pc = AfterProtect(o),
                                !.user = issued[at].uid,
                                !.role = users[issued[at].uid].role]]
                   /\ UNCHANGED resp
  /\ UNCHANGED <<users, product, issued, now, ticks, ad, category>>

\* protect as the router calls it: with the request's headers.
ProtectHeader(r, o, h, target, cn) == Protect(r, o, BearerToken(h), target, cn)

\* A route without protect: the handler starts with req.user undefined.
Unguarded(r, o, target) ==
  /\ Free(r)
  /\ req' = [req EXCEPT ![r] = [Start(o, target) EXCEPT !.pc = "handler"]]
  /\ UNCHANGED <<users, product, resp, issued, now, ticks, ad, category>>

\* ---- middleware/auth: admin -----------------------------------------------
\* req.user && req.user.role === 'admin' ? next() : 403
Admin(r) ==
  /\ Quiet
  /\ req[r].pc = "admin"
  /\ IF req[r].user # NoUser /\ req[r].role = "admin"
       THEN req' = [req EXCEPT ![r].pc = "handler"] /\ UNCHANGED resp
       ELSE Finish(r, 403, "Not authorized as an admin", NoTok)
  /\ UNCHANGED <<users, product, issued, now, ticks, ad, category>>

\* ---- POST /users/logout --------------------------------------------------
\* User.findById(req.user.id)
LogoutFind(r) ==
  /\ Quiet
  /\ req[r].op = "logout" /\ req[r].pc = "handler"
  /\ IF users[req[r].user].exists
       THEN req' = [req EXCEPT ![r].pc = "save"] /\ UNCHANGED resp
       ELSE Finish(r, 200, "Logged out successfully", NoTok)
  /\ UNCHANGED <<users, product, issued, now, ticks, ad, category>>

\* The handler clearing the token and leaving its expiry.
LogoutSaveTokenOnly(r) ==
  /\ Quiet
  /\ req[r].op = "logout" /\ req[r].pc = "save"
  /\ users' = [users EXCEPT ![req[r].user].refreshToken = NoTok]
  /\ Finish(r, 200, "Logged out successfully", NoTok)
  /\ UNCHANGED <<product, issued, now, ticks, ad, category>>

\* user.refreshToken = null; user.refreshTokenExpiry = null; user.save(); 200.
LogoutSave(r) ==
  /\ Quiet
  /\ req[r].op = "logout" /\ req[r].pc = "save"
  /\ users' = [users EXCEPT ![req[r].user].refreshToken = NoTok,
                            ![req[r].user].refreshTokenExpiry = NoDate]
  /\ Finish(r, 200, "Logged out successfully", NoTok)
  /\ UNCHANGED <<product, issued, now, ticks, ad, category>>

\* ---- store failures in login, refresh-token and logout -------------------
\* The message of the handler's catch.
CatchMessage(o) ==
  IF o = "login" THEN "Failed to login"
  ELSE IF o = "refresh" THEN "Failed to refresh token"
  ELSE "Failed to logout"

\* The first store call of loginUser or refreshToken (findOne) rejects: the
\* catch answers 500. refreshToken answers a body without a token before
\* it calls the store.
FindRejects(r, o, a) ==
  /\ Free(r)
  /\ o \in {"login", "refresh"}
  /\ o = "refresh" => a # NoTok
  /\ resp' = [Reply(Start(o, a), 500, CatchMessage(o), NoTok) EXCEPT !.err = "error.message"]
  /\ UNCHANGED <<users, product, req, issued, now, ticks, ad, category>>

\* A rejected save that had ended the stored session all the same.
AwaitRejectsClearing(r) ==
  /\ Quiet
  /\ req[r].op \in {"login", "refresh", "logout"}
  /\ req[r].pc \in {"handler", "save"}
  /\ users' = [users EXCEPT ![req[r].user].refreshToken = NoTok,
                            ![req[r].user].refreshTokenExpiry = NoDate]
  /\ resp' = [Reply(req[r], 500, CatchMessage(req[r].op), NoTok) EXCEPT !.err = "error.message"]
  /\ req' = [req EXCEPT ![r] = IdleReq]
  /\ UNCHANGED <<product, issued, now, ticks, ad, category>>

\* The store call a request of the three handlers is waiting for (findById
\* of logoutUser, user.save() of any) rejects: nothing is written, the
\* assignments stay on the loaded document, the catch answers 500 and the
\* request ends; no handler calls the store again.
AwaitRejects(r) ==
  /\ Quiet
  /\ req[r].op \in {"login", "refresh", "logout"}
  /\ req[r].pc \in {"handler", "save"}
  /\ resp' = [Reply(req[r], 500, CatchMessage(req[r].op), NoTok) EXCEPT !.err = "error.message"]
  /\ req' = [req EXCEPT ![r] = IdleReq]
  /\ UNCHANGED <<users, product, issued, now, ticks, ad, category>>

\* ---- DELETE /users/:id ---------------------------------------------------
\* req.user.id !== req.params.id compares the printed id of the identity
\* with the route parameter as typed; findById parses the parameter.
SameIdString(u, target, cn) == u = target /\ cn

DeleteUserAllowed(q) ==
  q.role = "admin" \/ SameIdString(q.user, q.arg, q.canon)

DeleteUserFind(r) ==
  /\ Quiet
  /\ req[r].op = "deleteUser" /\ req[r].pc = "handler"
  /\ IF ~DeleteUserAllowed(req[r])
       THEN Finish(r, 403, "Not authorized to delete this user", NoTok)
       ELSE IF ~users[req[r].arg].exists
         THEN Finish(r, 404, "User not found", NoTok)
         ELSE req' = [req EXCEPT ![r].pc = "save"] /\ UNCHANGED resp
  /\ UNCHANGED <<users, product, issued, now, ticks, ad, category>>

\* A deactivation that ends the stored session as well.
DeleteUserSaveClearing(r) ==
  /\ Quiet
  /\ req[r].op = "deleteUser" /\ req[r].pc = "save"
  /\ users' = [users EXCEPT ![req[r].arg].isActive = FALSE,
                            ![req[r].arg].refreshToken = NoTok,
                            ![req[r].arg].refreshTokenExpiry = NoDate]
  /\ Finish(r, 200, "User deactivated successfully", NoTok)
  /\ UNCHANGED <<product, issued, now, ticks, ad, category>>

\* user.isActive = false; user.save(); 200.
DeleteUserSave(r) ==
  /\ Quiet
  /\ req[r].op = "deleteUser" /\ req[r].pc = "save"
  /\ users' = [users EXCEPT ![req[r].arg].isActive = FALSE]
  /\ Finish(r, 200, "User deactivated successfully", NoTok)
  /\ UNCHANGED <<product, issued, now, ticks, ad, category>>

\* ---- PUT /users/:id/role ---------------------------------------------------
\* What the body may carry as role: nothing ("none"), one of the two roles,
\* or another string.
RoleInputs == {"none", "user", "admin", "root"}

\* !role || !['user', 'admin'].includes(role)
InvalidRole(role) == role = "none" \/ role \notin {"user", "admin"}

\* The handler without the test of the body's role.
ChangeUserRoleFindAnyRole(r, role) ==
  /\ Quiet
  /\ req[r].op = "changeUserRole" /\ req[r].pc = "handler"
  /\ IF req[r].role # "admin"
       THEN Finish(r, 403, "Not authorized to change user roles", NoTok)
       ELSE IF ~users[req[r].arg].exists
         THEN Finish(r, 404, "User not found", NoTok)
         ELSE req' = [req EXCEPT ![r].pc = "save", ![r].body = role] /\ UNCHANGED resp
  /\ UNCHANGED <<users, product, issued, now, ticks, ad, category>>

\* The role test on req.user, the test of the body's role,
\* User.findById(req.params.id).
ChangeUserRoleFind(r, role) ==
  /\ Quiet
  /\ req[r].op = "changeUserRole" /\ req[r].pc = "handler"
  /\ IF req[r].role # "admin"
       THEN Finish(r, 403, "Not authorized to change user roles", NoTok)
       ELSE IF InvalidRole(role)
         THEN Finish(r, 400, "Invalid role specified", NoTok)
         ELSE IF ~users[req[r].arg].exists
           THEN Finish(r, 404, "User not found", NoTok)
           ELSE req' = [req EXCEPT ![r].pc = "save", ![r].body = role] /\ UNCHANGED resp
  /\ UNCHANGED <<users, product, issued, now, ticks, ad, category>>

\* user.role = role; user.save(); 200.
ChangeUserRoleSave(r) ==
  /\ Quiet
  /\ req[r].op = "changeUserRole" /\ req[r].pc = "save"
  /\ users' = [users EXCEPT ![req[r].arg].role = req[r].body]
  /\ Finish(r, 200, "User role updated", NoTok)
  /\ UNCHANGED <<product, issued, now, ticks, ad, category>>

\* ---- PUT /products/:id, DELETE /products/:id -----------------------------
\* product.publisher.toString() !== req.user._id.toString() && role !== 'admin'
ProductAllowed(q) ==
  product.publisher = q.user \/ q.role = "admin"

\* Product.findById, the ownership check, Category.findById(req.body.category)
\* (categoryOk: the body names no category or one that exists).
UpdateProductFind(r, categoryOk) ==
  /\ Quiet
  /\ req[r].op = "updateProduct" /\ req[r].pc = "handler"
  /\ IF ~product.exists
       THEN Finish(r, 404, "Product not found", NoTok)
       ELSE IF ~ProductAllowed(req[r])
         THEN Finish(r, 403, "Not authorized to update this product", NoTok)
         ELSE IF ~categoryOk
           THEN Finish(r, 400, "Invalid category", NoTok)
           ELSE req' = [req EXCEPT ![r].pc = "save"] /\ UNCHANGED resp
  /\ UNCHANGED <<users, product, issued, now, ticks, ad, category>>

\* Product.findByIdAndUpdate(id, { ...req.body, updatedAt }): the body may
\* name any field of the product, the publisher included (p = NoUser: it
\* does not).
UpdateProductSave(r, p) ==
  /\ Quiet
  /\ req[r].op = "updateProduct" /\ req[r].pc = "save"
  /\ product' = [product EXCEPT !.rev = 1 - product.rev,
                                !.publisher = IF p = NoUser THEN product.publisher ELSE p]
  /\ Finish(r, 200, "ok", NoTok)
  /\ UNCHANGED <<users, issued, now, ticks, ad, category>>

DeleteProductFind(r) ==
  /\ Quiet
  /\ req[r].op = "deleteProduct" /\ req[r].pc = "handler"
  /\ IF ~product.exists
       THEN Finish(r, 404, "Product not found", NoTok)
       ELSE IF ~ProductAllowed(req[r])
         THEN Finish(r, 403, "Not authorized to delete this product", NoTok)
         ELSE req' = [req EXCEPT ![r].pc = "save"] /\ UNCHANGED resp
  /\ UNCHANGED <<users, product, issued, now, ticks, ad, category>>

\* await Promise.all(images.map(deleteImage)) (imagesOk: no image, or every
\* deletion resolved); product.isActive = false; product.save(); 200.
DeleteProductSave(r, imagesOk) ==
  /\ Quiet
  /\ req[r].op = "deleteProduct" /\ req[r].pc = "save"
  /\ IF imagesOk
       THEN /\ product' = [product EXCEPT !.isActive = FALSE]
            /\ Finish(r, 200, "Product deleted successfully", NoTok)
       ELSE /\ Finish(r, 500, "Failed to delete product", NoTok)
            /\ UNCHANGED product
  /\ UNCHANGED <<users, issued, now, ticks, ad, category>>

\* ---- GET /admin/users, PUT /admin/users/:userId (controllers/admin) ------
\* if (req.user.role === 'admin') return 403; User.find(); 200.
AdminGetAllUsers(r) ==
  /\ Quiet
  /\ req[r].op = "adminGetAllUsers" /\ req[r].pc = "handler"
  /\ IF req[r].role = "admin"
       THEN Finish(r, 403, "Access denied. Admin privileges required.", NoTok)
       ELSE Finish(r, 200, "ok", NoTok)
  /\ UNCHANGED <<users, product, issued, now, ticks, ad, category>>

\* The same test on the role, then the body's isAdmin (given: it is there),
\* then User.findByIdAndUpdate(userId, { isAdmin }): a field beside role,
\* which nothing reads.
UpdateUserRole(r, given) ==
  /\ Quiet
  /\ req[r].op = "updateUserRole" /\ req[r].pc = "handler"
  /\ IF req[r].role = "admin"
       THEN Finish(r, 403, "Access denied. Admin privileges required.", NoTok)
       ELSE IF ~given
         THEN Finish(r, 400, "Admin status is required", NoTok)
         ELSE IF ~users[req[r].arg].exists
           THEN Finish(r, 404, "User not found", NoTok)
           ELSE Finish(r, 200, "User role updated successfully", NoTok)
  /\ UNCHANGED <<users, product, issued, now, ticks, ad, category>>

\* ---- GET /users, GET /users/:id, PUT /users/profile (controllers/user) --
\* User.find({}); 200.
GetAllUsers(r) ==
  /\ Quiet
  /\ req[r].op = "getAllUsers" /\ req[r].pc = "handler"
  /\ Finish(r, 200, "ok", NoTok)
  /\ UNCHANGED <<users, product, issued, now, ticks, ad, category>>

\* User.findById(req.params.id); 404 or 200 with the document.
GetUserById(r) ==
  /\ Quiet
  /\ req[r].op = "getUserById" /\ req[r].pc = "handler"
  /\ IF users[req[r].arg].exists
       THEN Finish(r, 200, "ok", NoTok)
       ELSE Finish(r, 404, "User not found", NoTok)
  /\ UNCHANGED <<users, product, issued, now, ticks, ad, category>>

\* const userId = req.user.id throws when req.user is undefined, and the
\* catch answers 500; else findByIdAndUpdate of firstName, lastName, phone,
\* image (fields outside this model).
UpdateUserProfile(r) ==
  /\ Quiet
  /\ req[r].op = "updateUserProfile" /\ req[r].pc = "handler"
  /\ IF req[r].user = NoUser
       THEN Finish(r, 500, "Failed to update profile", NoTok)
       ELSE IF ~users[req[r].user].exists
         THEN Finish(r, 404, "User not found", NoTok)
         ELSE Finish(r, 200, "Profile updated successfully", NoTok)
  /\ UNCHANGED <<users, product, issued, now, ticks, ad, category>>

\* ---- POST /ads, PUT /ads/:id, DELETE /ads/:id (controllers/ad) -----------
\* The body and file checks, cloudinary.uploader.upload, createdBy:
\* req.user._id (throws when req.user is undefined: 500), Ad.create; 201.
\* The model follows one ad document: a create while it exists makes
\* another document.
CreateAd(r, bodyOk, uploadOk) ==
  /\ Quiet
  /\ req[r].op = "createAd" /\ req[r].pc = "handler"
  /\ IF ~bodyOk
       THEN Finish(r, 400, "Please provide title, description, and position", NoTok)
            /\ UNCHANGED ad
       ELSE IF ~uploadOk
         THEN Finish(r, 500, "Error uploading image to Cloudinary", NoTok)
              /\ UNCHANGED ad
         ELSE IF req[r].user = NoUser
           THEN Finish(r, 500, "Cannot read properties of undefined", NoTok)
                /\ UNCHANGED ad
           ELSE /\ ad' = IF ad.exists THEN ad ELSE SeededAd
                /\ Finish(r, 201, "Ad created successfully", NoTok)
  /\ UNCHANGED <<users, product, issued, now, ticks, category>>

\* Ad.findById(req.params.id)
UpdateAdFind(r) ==
  /\ Quiet
  /\ req[r].op = "updateAd" /\ req[r].pc = "handler"
  /\ IF ~ad.exists
       THEN Finish(r, 404, "Ad not found", NoTok)
       ELSE req' = [req EXCEPT ![r].pc = "save"] /\ UNCHANGED resp
  /\ UNCHANGED <<users, product, issued, now, ticks, ad, category>>

\* img: the request carries no file ("none"), a file with the URL the upload
\* middleware gave it ("fileUrl", a URL of this server), or a file without
\* one ("file", uploaded to Cloudinary here: uploadOk). The destroy of the
\* old Cloudinary image is tried and its failure only logged, so whether it
\* succeeds (destroyOk) changes nothing. Ad.findByIdAndUpdate(id, req.body);
\* 200 also when the document is gone by now.
UpdateAdSave(r, img, destroyOk, uploadOk) ==
  /\ Quiet
  /\ req[r].op = "updateAd" /\ req[r].pc = "save"
  /\ IF img = "file" /\ ~uploadOk
       THEN Finish(r, 500, "Error uploading image to Cloudinary", NoTok)
            /\ UNCHANGED ad
       ELSE /\ ad' = IF ad.exists
                       THEN [ad EXCEPT !.rev = 1 - ad.rev,
                                       !.cloud = IF img = "none" THEN ad.cloud
                                                 ELSE img = "file"]
                       ELSE ad
            /\ Finish(r, 200, "Ad updated successfully", NoTok)
  /\ UNCHANGED <<users, product, issued, now, ticks, category>>

\* Ad.findById(req.params.id)
DeleteAdFind(r) ==
  /\ Quiet
  /\ req[r].op = "deleteAd" /\ req[r].pc = "handler"
  /\ IF ~ad.exists
       THEN Finish(r, 404, "Ad not found", NoTok)
       ELSE req' = [req EXCEPT ![r].pc = "save"] /\ UNCHANGED resp
  /\ UNCHANGED <<users, product, issued, now, ticks, ad, category>>

\* try { cloudinary.uploader.destroy } catch { warn } for a Cloudinary image
\* (destroyOk: it resolved); Ad.findByIdAndDelete(req.params.id); 200.
DeleteAdSave(r, destroyOk) ==
  /\ Quiet
  /\ req[r].op = "deleteAd" /\ req[r].pc = "save"
  /\ ad' = AbsentAd
  /\ Finish(r, 200, "Ad deleted successfully", NoTok)
  /\ UNCHANGED <<users, product, issued, now, ticks, category>>

\* ---- the product listings (controllers/product, user, category) ----------
\* What Product.find returns of the product followed here: rest says whether
\* the product meets the conditions of the query beside isActive (keyword,
\* category, price, text score) and falls within skip and limit.
ActiveProducts(rest) ==
  IF product.exists /\ product.isActive /\ rest THEN {ProdId} ELSE {}

\* A query without its isActive condition.
AnyProducts(rest) ==
  IF product.exists /\ rest THEN {ProdId} ELSE {}

\* The answer 200 with a products array.
Listing(q, found) == [Reply(q, 200, "ok", NoTok) EXCEPT !.products = found]

\* GET /products: Product.find(query), query = { isActive: true, ... }; the
\* request keeps what it found (arg) for its answer.
GetAllProductsFind(r, rest) ==
  /\ Free(r)
  /\ req' = [req EXCEPT ![r] = [Start("getAllProducts", 0) EXCEPT !.pc = "count",
                !.arg = IF ActiveProducts(rest) = {} THEN 0 ELSE ProdId]]
  /\ UNCHANGED <<users, product, resp, issued, now, ticks, ad, category>>

\* Product.countDocuments(query) for totalPages; 200 with what find returned.
GetAllProductsCount(r) ==
  /\ Quiet
  /\ req[r].op = "getAllProducts" /\ req[r].pc = "count"
  /\ resp' = Listing(req[r], IF req[r].arg = ProdId THEN {ProdId} ELSE {})
  /\ req' = [req EXCEPT ![r] = IdleReq]
  /\ UNCHANGED <<users, product, issued, now, ticks, ad, category>>

\* GET /products/latest: Product.find({ isActive: true }).sort().limit().
GetLatestProducts(r, rest) ==
  /\ Free(r)
  /\ resp' = Listing(Start("getLatestProducts", 0), ActiveProducts(rest))
  /\ UNCHANGED <<users, product, req, issued, now, ticks, ad, category>>

\* GET /products/search: 400 without q (given: the query string has one),
\* else Product.find({ $text: { $search: q }, isActive: true }).
SearchProducts(r, given, rest) ==
  /\ Free(r)
  /\ resp' = IF ~given
               THEN Reply(Start("searchProducts", 0), 400, "Search query is required", NoTok)
               ELSE Listing(Start("searchProducts", 0), ActiveProducts(rest))
  /\ UNCHANGED <<users, product, req, issued, now, ticks, ad, category>>

\* The listing without the isActive condition in its query.
GetUserProductsAny(r, id) ==
  /\ Free(r)
  /\ resp' = Listing(Start("getUserProducts", id), AnyProducts(product.publisher = id))
  /\ UNCHANGED <<users, product, req, issued, now, ticks, ad, category>>

\* GET /users/:id/products: Product.find({ publisher: id, isActive: true }).
GetUserProducts(r, id) ==
  /\ Free(r)
  /\ resp' = Listing(Start("getUserProducts", id), ActiveProducts(product.publisher = id))
  /\ UNCHANGED <<users, product, req, issued, now, ticks, ad, category>>

\* GET /categories/:id/products: Category.findOne({ $or: [id, slug],
\* isActive: true }) for the category of the product followed here (found:
\* there is such a category and it is active); 404 without one.
GetCategoryProductsFind(r, found) ==
  /\ Free(r)
  /\ IF ~found
       THEN Refuse(Start("getCategoryProducts", 0), 404, "Category not found")
       ELSE /\ req' = [req EXCEPT ![r] = [Start("getCategoryProducts", 0) EXCEPT !.pc = "list"]]
            /\ UNCHANGED resp
  /\ UNCHANGED <<users, product, issued, now, ticks, ad, category>>

\* Product.find({ category: category._id, isActive: true }); 200.
GetCategoryProductsList(r) ==
  /\ Quiet
  /\ req[r].op = "getCategoryProducts" /\ req[r].pc = "list"
  /\ resp' = Listing(req[r], ActiveProducts(TRUE))
  /\ req' = [req EXCEPT ![r] = IdleReq]
  /\ UNCHANGED <<users, product, issued, now, ticks, ad, category>>

\* ---- POST /products (controllers/product) --------------------------------
\* Product.create(req.body) with publisher: req.user._id. valid: the body
\* passes the schema's validation; inCategory: the body names the category
\* followed here (the store does not look the reference up). The product
\* document followed here is another one, of another category.
CreateProduct(r, valid, inCategory) ==
  /\ Quiet
  /\ req[r].op = "createProduct" /\ req[r].pc = "handler"
  /\ IF ~valid
       THEN Finish(r, 400, "Validation failed", NoTok) /\ UNCHANGED category
       ELSE /\ inCategory => category.products < MaxProducts
            /\ category' = IF inCategory
                             THEN [category EXCEPT !.products = category.products + 1]
                             ELSE category
            /\ Finish(r, 201, "ok", NoTok)
  /\ UNCHANGED <<users, product, issued, now, ticks, ad>>

\* ---- DELETE /categories/:id (controllers/category) -----------------------
\* Category.findById(req.params.id); the handler is followed from its first
\* line, whatever routes/categoryRoutes mounts before it.
DeleteCategoryFind(r) ==
  /\ Free(r)
  /\ IF ~category.exists
       THEN Refuse(Start("deleteCategory", CatId), 404, "Category not found")
       ELSE /\ req' = [req EXCEPT ![r] = [Start("deleteCategory", CatId) EXCEPT !.pc = "count"]]
            /\ UNCHANGED resp
  /\ UNCHANGED <<users, product, issued, now, ticks, ad, category>>

\* Product.countDocuments({ category: categoryId }); 400 when it is not 0.
DeleteCategoryCount(r) ==
  /\ Quiet
  /\ req[r].op = "deleteCategory" /\ req[r].pc = "count"
  /\ IF category.products > 0
       THEN Finish(r, 400, "Cannot delete category as it is associated with products", NoTok)
       ELSE req' = [req EXCEPT ![r].pc = "delete"] /\ UNCHANGED resp
  /\ UNCHANGED <<users, product, issued, now, ticks, ad, category>>

\* category.deleteOne() (a document that is gone already deletes nothing);
\* 200.
DeleteCategoryRemove(r) ==
  /\ Quiet
  /\ req[r].op = "deleteCategory" /\ req[r].pc = "delete"
  /\ category' = [category EXCEPT !.exists = FALSE]
  /\ Finish(r, 200, "Category deleted successfully", NoTok)
  /\ UNCHANGED <<users, product, issued, now, ticks, ad>>

\* ---- GET /admin/stats (controllers/admin) ---------------------------------
\* The counts and aggregations (storeOk: none of them rejected); 200 with the
\* figures and no success field, or the catch's 500.
GetAdminStats(r, storeOk) ==
  /\ Quiet
  /\ req[r].op = "getAdminStats" /\ req[r].pc = "handler"
  /\ IF storeOk
       THEN /\ resp' = [Reply(req[r], 200, "ok", NoTok) EXCEPT !.success = "absent"]
            /\ req' = [req EXCEPT ![r] = IdleReq]
       ELSE Finish(r, 500, "Error retrieving admin statistics", NoTok)
  /\ UNCHANGED <<users, product, issued, now, ticks, ad, category>>

\* ---- POST /ads/track/impression/:adId (controllers/ad) -------------------
\* A route without protect. validId: mongoose.Types.ObjectId.isValid(adId);
\* Ad.findByIdAndUpdate(adId, { $inc: { impressions: 1 } }) (storeOk: it
\* resolved; it resolves to null for an id no ad has); 200, or the catch's
\* 500 whose body has success and error and no message.
TrackAdImpression(r, validId, storeOk) ==
  /\ Free(r)
  /\ LET q == Start("trackAdImpression", AdId)
     IN IF ~validId
          THEN /\ resp' = Reply(q, 400, "Invalid ad ID", NoTok)
               /\ UNCHANGED ad
          ELSE IF ~storeOk
            THEN /\ resp' = [Reply(q, 500, "none", NoTok) EXCEPT !.err = "error.message"]
                 /\ UNCHANGED ad
            ELSE /\ ad' = IF ad.exists THEN [ad EXCEPT !.rev = 1 - ad.rev] ELSE ad
                 /\ resp' = Reply(q, 200, "ok", NoTok)
  /\ UNCHANGED <<users, product, req, issued, now, ticks, category>>

\* ---- the system ----------------------------------------------------------
Bearers == {NoHeader, BadToken, MalformedToken} \cup (1..Len(issued))
Headers == [scheme : Schemes, tok : Bearers]
Presentable == {NoTok, BogusTok} \cup (1..Len(issued))

\* The session lifecycle: register, login, refresh-token and logout of
\* routes/userRoutes, requests overlapping.
Next ==
  \/ Deliver
  \/ \E r \in Reqs, e \in UserIds : RegisterFind(r, e)
  \/ \E r \in Reqs : RegisterCreate(r)
  \/ \E r \in Reqs : RegisterSave(r, 0)
  \/ \E r \in Reqs, e \in UserIds, pwOk \in BOOLEAN : LoginFind(r, e, pwOk)
  \/ \E r \in Reqs : LoginSave(r)
  \/ \E r \in Reqs, tok \in Presentable : RefreshFind(r, tok)
  \/ \E r \in Reqs : RefreshSave(r)
  \/ \E r \in Reqs, at \in Bearers : Protect(r, "logout", at, NoUser, TRUE)
  \/ \E r \in Reqs : LogoutFind(r)
  \/ \E r \in Reqs : LogoutSave(r)

Spec == Init /\ [][Next]_vars

\* Deactivation: DELETE /users/:id beside login and refresh-token.
NextDeact ==
  \/ Deliver
  \/ \E r \in Reqs, e \in UserIds, pwOk \in BOOLEAN : LoginFind(r, e, pwOk)
  \/ \E r \in Reqs : LoginSave(r)
  \/ \E r \in Reqs, tok \in Presentable : RefreshFind(r, tok)
  \/ \E r \in Reqs : RefreshSave(r)
  \/ \E r \in Reqs, at \in Bearers, t \in UserIds, cn \in BOOLEAN :
       Protect(r, "deleteUser", at, t, cn)
  \/ \E r \in Reqs : DeleteUserFind(r)
  \/ \E r \in Reqs : DeleteUserSave(r)

SpecDeact == Init /\ [][NextDeact]_vars

\* Expiry: the clock beside the three handlers that hand out refresh tokens.
NextClock ==
  \/ Deliver
  \/ \E d \in TickSteps : Tick(d)
  \/ \E r \in Reqs, e \in UserIds : RegisterFind(r, e)
  \/ \E r \in Reqs : RegisterCreate(r)
  \/ \E r \in Reqs, s \in DstShifts : RegisterSave(r, s)
  \/ \E r \in Reqs, e \in UserIds, pwOk \in BOOLEAN : LoginFind(r, e, pwOk)
  \/ \E r \in Reqs : LoginSave(r)
  \/ \E r \in Reqs, tok \in Presentable : RefreshFind(r, tok)
  \/ \E r \in Reqs : RefreshSave(r)

SpecClock == Init /\ [][NextClock]_vars

\* The ownership gate: login for an access token, then the handlers behind
\* protect that check who owns the resource.
NextGate ==
  \/ Deliver
  \/ \E r \in Reqs, e \in UserIds, pwOk \in BOOLEAN : LoginFind(r, e, pwOk)
  \/ \E r \in Reqs : LoginSave(r)
  \/ \E r \in Reqs, at \in Bearers, t \in UserIds, cn \in BOOLEAN :
       Protect(r, "deleteUser", at, t, cn)
  \/ \E r \in Reqs, at \in Bearers, o \in {"updateProduct", "deleteProduct"} :
       Protect(r, o, at, ProdId, TRUE)
  \/ \E r \in Reqs : DeleteUserFind(r)
  \/ \E r \in Reqs : DeleteUserSave(r)
  \/ \E r \in Reqs, c \in BOOLEAN : UpdateProductFind(r, c)
  \/ \E r \in Reqs, p \in UserIds \cup {NoUser} : UpdateProductSave(r, p)
  \/ \E r \in Reqs : DeleteProductFind(r)
  \/ \E r \in Reqs, ok \in BOOLEAN : DeleteProductSave(r, ok)

SpecGate == Init /\ [][NextGate]_vars

\* Access tokens over time: the clock in steps around the hour, beside
\* login, refresh-token and logout behind protect.
AccessTickSteps == {1, AccessTTL - 1}

NextAccess ==
  \/ Deliver
  \/ \E d \in AccessTickSteps : Tick(d)
  \/ \E r \in Reqs, e \in UserIds, pwOk \in BOOLEAN : LoginFind(r, e, pwOk)
  \/ \E r \in Reqs : LoginSave(r)
  \/ \E r \in Reqs, tok \in Presentable : RefreshFind(r, tok)
  \/ \E r \in Reqs : RefreshSave(r)
  \/ \E r \in Reqs, at \in Bearers : Protect(r, "logout", at, NoUser, TRUE)
  \/ \E r \in Reqs : LogoutFind(r)
  \/ \E r \in Reqs : LogoutSave(r)

SpecAccess == Init /\ [][NextAccess]_vars

\* Refresh tokens over time: the clock in steps around the seven days,
\* beside login, refresh-token and logout behind protect.
NextExpiry ==
  \/ Deliver
  \/ \E d \in TickSteps : Tick(d)
  \/ \E r \in Reqs, e \in UserIds, pwOk \in BOOLEAN : LoginFind(r, e, pwOk)
  \/ \E r \in Reqs : LoginSave(r)
  \/ \E r \in Reqs, tok \in Presentable : RefreshFind(r, tok)
  \/ \E r \in Reqs : RefreshSave(r)
  \/ \E r \in Reqs, at \in Bearers : Protect(r, "logout", at, NoUser, TRUE)
  \/ \E r \in Reqs : LogoutFind(r)
  \/ \E r \in Reqs : LogoutSave(r)

SpecExpiry == Init /\ [][NextExpiry]_vars

\* The gates: requests with any Authorization header to the routes mounted
\* with protect, admin, and requests to the routes mounted without protect.
NextAuth ==
  \/ Deliver
  \/ \E r \in Reqs, e \in UserIds, pwOk \in BOOLEAN : LoginFind(r, e, pwOk)
  \/ \E r \in Reqs : LoginSave(r)
  \/ \E r \in Reqs, o \in {"adminGetAllUsers", "updateUserRole", "getAllUsers", "createAd"},
        h \in Headers, t \in UserIds :
       ProtectHeader(r, o, h, t, TRUE)
  \/ \E r \in Reqs, o \in OpenRoutes, t \in UserIds : Unguarded(r, o, t)
  \/ \E r \in Reqs : Admin(r)
  \/ \E r \in Reqs : AdminGetAllUsers(r)
  \/ \E r \in Reqs, given \in BOOLEAN : UpdateUserRole(r, given)
  \/ \E r \in Reqs : GetAllUsers(r)
  \/ \E r \in Reqs : GetUserById(r)
  \/ \E r \in Reqs : UpdateUserProfile(r)
  \/ \E r \in Reqs, bodyOk \in BOOLEAN, uploadOk \in BOOLEAN : CreateAd(r, bodyOk, uploadOk)

SpecAuth == Init /\ [][NextAuth]_vars

\* Image cleanup: the handlers that delete an external image beside their
\* primary operation.
AdImages == {"none", "fileUrl", "file"}

NextCleanup ==
  \/ Deliver
  \/ \E r \in Reqs, e \in UserIds, pwOk \in BOOLEAN : LoginFind(r, e, pwOk)
  \/ \E r \in Reqs : LoginSave(r)
  \/ \E r \in Reqs, at \in Bearers, o \in {"updateAd", "deleteAd"} :
       Protect(r, o, at, AdId, TRUE)
  \/ \E r \in Reqs, at \in Bearers : Protect(r, "deleteProduct", at, ProdId, TRUE)
  \/ \E r \in Reqs : Admin(r)
  \/ \E r \in Reqs : UpdateAdFind(r)
  \/ \E r \in Reqs, img \in AdImages, destroyOk \in BOOLEAN, uploadOk \in BOOLEAN :
       UpdateAdSave(r, img, destroyOk, uploadOk)
  \/ \E r \in Reqs : DeleteAdFind(r)
  \/ \E r \in Reqs, destroyOk \in BOOLEAN : DeleteAdSave(r, destroyOk)
  \/ \E r \in Reqs : DeleteProductFind(r)
  \/ \E r \in Reqs, ok \in BOOLEAN : DeleteProductSave(r, ok)

SpecCleanup == Init /\ [][NextCleanup]_vars

\* Response bodies: handlers of controllers/user, controllers/admin and
\* controllers/ad behind their gates, and a route without one.
NextEnvelope ==
  \/ Deliver
  \/ \E r \in Reqs, e \in UserIds : RegisterFind(r, e)
  \/ \E r \in Reqs : RegisterCreate(r)
  \/ \E r \in Reqs : RegisterSave(r, 0)
  \/ \E r \in Reqs, e \in UserIds, pwOk \in BOOLEAN : LoginFind(r, e, pwOk)
  \/ \E r \in Reqs : LoginSave(r)
  \/ \E r \in Reqs, h \in Headers : ProtectHeader(r, "getAdminStats", h, NoUser, TRUE)
  \/ \E r \in Reqs : Admin(r)
  \/ \E r \in Reqs, storeOk \in BOOLEAN : GetAdminStats(r, storeOk)
  \/ \E r \in Reqs, validId \in BOOLEAN, storeOk \in BOOLEAN :
       TrackAdImpression(r, validId, storeOk)

SpecEnvelope == Init /\ [][NextEnvelope]_vars

\* Categories: DELETE /categories/:id beside POST /products behind protect.
NextCategory ==
  \/ Deliver
  \/ \E r \in Reqs, e \in UserIds, pwOk \in BOOLEAN : LoginFind(r, e, pwOk)
  \/ \E r \in Reqs : LoginSave(r)
  \/ \E r \in Reqs, at \in Bearers : Protect(r, "createProduct", at, NoUser, TRUE)
  \/ \E r \in Reqs, valid \in BOOLEAN, inCategory \in BOOLEAN :
       CreateProduct(r, valid, inCategory)
  \/ \E r \in Reqs : DeleteCategoryFind(r)
  \/ \E r \in Reqs : DeleteCategoryCount(r)
  \/ \E r \in Reqs : DeleteCategoryRemove(r)

SpecCategory == Init /\ [][NextCategory]_vars

\* Soft delete: DELETE /products/:id behind protect beside the five product
\* listings, which no gate precedes.
NextListing ==
  \/ Deliver
  \/ \E r \in Reqs, e \in UserIds, pwOk \in BOOLEAN : LoginFind(r, e, pwOk)
  \/ \E r \in Reqs : LoginSave(r)
  \/ \E r \in Reqs, at \in Bearers : Protect(r, "deleteProduct", at, ProdId, TRUE)
  \/ \E r \in Reqs : DeleteProductFind(r)
  \/ \E r \in Reqs, ok \in BOOLEAN : DeleteProductSave(r, ok)
  \/ \E r \in Reqs, rest \in BOOLEAN : GetAllProductsFind(r, rest)
  \/ \E r \in Reqs : GetAllProductsCount(r)
  \/ \E r \in Reqs, rest \in BOOLEAN : GetLatestProducts(r, rest)
  \/ \E r \in Reqs, given \in BOOLEAN, rest \in BOOLEAN : SearchProducts(r, given, rest)
  \/ \E r \in Reqs, id \in UserIds : GetUserProducts(r, id)
  \/ \E r \in Reqs, found \in BOOLEAN : GetCategoryProductsFind(r, found)
  \/ \E r \in Reqs : GetCategoryProductsList(r)

SpecListing == Init /\ [][NextListing]_vars

\* Store failures: login, refresh-token and logout with store calls that
\* may reject.
NextFailure ==
  \/ Deliver
  \/ \E r \in Reqs, e \in UserIds, pwOk \in BOOLEAN : LoginFind(r, e, pwOk)
  \/ \E r \in Reqs : LoginSave(r)
  \/ \E r \in Reqs, tok \in Presentable : RefreshFind(r, tok)
  \/ \E r \in Reqs : RefreshSave(r)
  \/ \E r \in Reqs, at \in Bearers : Protect(r, "logout", at, NoUser, TRUE)
  \/ \E r \in Reqs : LogoutFind(r)
  \/ \E r \in Reqs : LogoutSave(r)
  \/ \E r \in Reqs, e \in UserIds : FindRejects(r, "login", e)
  \/ \E r \in Reqs, tok \in Presentable : FindRejects(r, "refresh", tok)
  \/ \E r \in Reqs : AwaitRejects(r)

SpecFailure == Init /\ [][NextFailure]_vars

\* Writers of a user record outside the session lifecycle: deactivation,
\* the two role handlers and the profile update, beside login.
NextFrame ==
  \/ Deliver
  \/ \E r \in Reqs, pwOk \in BOOLEAN : LoginFind(r, 1, pwOk)
  \/ \E r \in Reqs : LoginSave(r)
  \/ \E r \in Reqs, at \in Bearers, t \in UserIds,
        o \in {"deleteUser", "changeUserRole", "updateUserRole"} :
       Protect(r, o, at, t, TRUE)
  \/ \E r \in Reqs : Unguarded(r, "updateUserProfile", NoUser)
  \/ \E r \in Reqs : Admin(r)
  \/ \E r \in Reqs : DeleteUserFind(r)
  \/ \E r \in Reqs : DeleteUserSave(r)
  \/ \E r \in Reqs, role \in RoleInputs : ChangeUserRoleFind(r, role)
  \/ \E r \in Reqs : ChangeUserRoleSave(r)
  \/ \E r \in Reqs, given \in BOOLEAN : UpdateUserRole(r, given)
  \/ \E r \in Reqs : UpdateUserProfile(r)

SpecFrame == Init /\ [][NextFrame]_vars

\* Roles: register, login and PUT /users/:id/role, beside GET /users as a
\* route behind the admin gate and PUT /users/profile as one without a gate.
NextRoles ==
  \/ Deliver
  \/ \E r \in Reqs, e \in UserIds : RegisterFind(r, e)
  \/ \E r \in Reqs : RegisterCreate(r)
  \/ \E r \in Reqs : RegisterSave(r, 0)
  \/ \E r \in Reqs, e \in UserIds, pwOk \in BOOLEAN : LoginFind(r, e, pwOk)
  \/ \E r \in Reqs : LoginSave(r)
  \/ \E r \in Reqs, at \in Bearers, t \in UserIds : Protect(r, "changeUserRole", at, t, TRUE)
  \/ \E r \in Reqs, at \in Bearers : Protect(r, "getAllUsers", at, NoUser, TRUE)
  \/ \E r \in Reqs : Admin(r)
  \/ \E r \in Reqs, role \in RoleInputs : ChangeUserRoleFind(r, role)
  \/ \E r \in Reqs : ChangeUserRoleSave(r)
  \/ \E r \in Reqs : GetAllUsers(r)
  \/ \E r \in Reqs : Unguarded(r, "updateUserProfile", NoUser)
  \/ \E r \in Reqs : UpdateUserProfile(r)

SpecRoles == Init /\ [][NextRoles]_vars

TypeOK ==
  /\ now \in Nat
  /\ ticks \in 0..MaxTicks
  /\ Len(issued) <= MaxTokens
  /\ \A u \in UserIds : users[u].refreshToken \in 0..MaxTokens
  /\ ad \in {AbsentAd} \cup [exists : {TRUE}, cloud : BOOLEAN, rev : {0, 1}]
  /\ resp.err \in {"none", "jwt malformed", "invalid signature", "jwt expired",
                  "error.message"}
  /\ resp.success \in {"true", "false", "absent"}
  /\ category \in [exists : BOOLEAN, products : 0..MaxProducts]
  /\ resp.products \subseteq {ProdId}

\* ---- what the clients hold ------------------------------------------------
Tokens == 1..Len(issued)

\* Some POST /refresh-token presenting t has answered 200.
Rotated(t) == \E i \in Tokens : issued[i].by = "refresh" /\ issued[i].from = t

\* t is what the store holds for the user it was handed to.
Stored(t) == users[issued[t].uid].refreshToken = t

\* Less than seven days have passed since t was handed out.
Unexpired(t) == now < issued[t].iat + RefreshTTL

C2_DeactivationRevokes ==
  [][\A r \in Reqs, at \in Tokens, o \in {"logout", "deleteUser", "updateProduct", "deleteProduct"},
        t \in UserIds, cn \in BOOLEAN :
       Protect(r, o, at, t, cn) /\ ~users[issued[at].uid].isActive =>
         resp'.status = 401 /\ req' = req]_vars

\* A signed, unexpired access token of a deactivated user is refused.
C2_Witness ==
  /\ resp.status = 401 /\ resp.msg = "User not found or inactive"
  /\ resp.user \in UserIds
  /\ users[resp.user].exists /\ ~users[resp.user].isActive

\* ---- C3 ------------------------------------------------------------------
\* C3: each user has at most one refresh token that validates, a refresh
\* token validates for at most one user (the one it was handed to), and once
\* a login or refresh of U has answered, no token handed to U before it
\* validates.
C3_OneValidToken ==
  /\ \A u \in UserIds :
       Cardinality({t \in Tokens : u \in FindByRefreshToken(issued[t].tok)}) <= 1
  /\ \A t \in Tokens : FindByRefreshToken(issued[t].tok) \subseteq {issued[t].uid}
  /\ \A i, j \in Tokens :
       /\ i < j /\ issued[i].uid = issued[j].uid
       /\ issued[j].by \in {"login", "refresh"}
       => FindByRefreshToken(issued[i].tok) = {}

\* A user holds a second token, which validates, after a first one.
C3_Witness ==
  \E i, j \in Tokens :
    /\ i < j /\ issued[i].uid = issued[j].uid
    /\ FindByRefreshToken(issued[j].tok) = {issued[j].uid}

\* ---- C4 ------------------------------------------------------------------
\* C4: a lookup of a stored refresh token succeeds exactly when the stored
\* expiry is later than now, and that is exactly when less than seven days
\* have passed since the token was handed out.
C4_SevenDays ==
  [][\A r \in Reqs, t \in Tokens :
       RefreshFind(r, t) /\ Stored(t) =>
         /\ (req'[r].pc = "save") = (users[issued[t].uid].refreshTokenExpiry > now)
         /\ (req'[r].pc = "save") = Unexpired(t)]_vars

\* ---- C5 ------------------------------------------------------------------
\* C5: right after register, login or refresh has answered U with refresh
\* token T (nothing else has touched U), a lookup of T finds U and no one
\* else, and the user a refresh answers with is the user its token was
\* handed to.
C5_RoundTrip ==
  /\ resp.out # NoTok =>
       /\ resp.status \in {200, 201}
       /\ FindByRefreshToken(resp.out) = {resp.user}
  /\ \A r \in Reqs :
       req[r].op = "refresh" /\ req[r].pc = "save" =>
         \E t \in Tokens : issued[t].tok = req[r].arg /\ issued[t].uid = req[r].user
  /\ resp.op = "refresh" /\ resp.status = 200 =>
       \E t \in Tokens : issued[t].tok = resp.arg /\ issued[t].uid = resp.user

\* A refresh has just answered with a token that validates for its user.
C5_Witness ==
  /\ resp.op = "refresh" /\ resp.status = 200
  /\ FindByRefreshToken(resp.out) = {resp.user}

\* ---- C6 ------------------------------------------------------------------
\* C6: updateProduct and deleteProduct on an existing product, and
\* deleteUser, answer 403 exactly when the identity is neither the owner
\* (publisher, target user) nor an admin, and a 403 changes nothing.
C6_OwnerOrAdmin ==
  [][\A r \in Reqs :
       /\ (req[r].op = "deleteUser" /\ req[r].pc = "handler" /\ req'[r] # req[r]) =>
            /\ (resp'.status = 403) =
                 ~(req[r].user = req[r].arg \/ req[r].role = "admin")
            /\ (resp'.status = 403 => users' = users /\ product' = product)
       /\ (req[r].op \in {"updateProduct", "deleteProduct"} /\ req[r].pc = "handler"
             /\ product.exists /\ req'[r] # req[r]) =>
            /\ (resp'.status = 403) =
                 ~(product.publisher = req[r].user \/ req[r].role = "admin")
            /\ (resp'.status = 403 => users' = users /\ product' = product)]_vars

\* ---- C7 ------------------------------------------------------------------
\* C7: when logout answers 200 for U the stored refresh token and expiry of
\* U are null and no token handed to U validates (presenting one gets 401);
\* a logout of a user whose fields are already null answers 200 and leaves
\* the store as it was.
Cleared(u) ==
  users[u].refreshToken = NoTok /\ users[u].refreshTokenExpiry = NoDate

C7_Logout ==
  [][/\ \A r \in Reqs, u \in UserIds :
          req[r].op = "logout" /\ req[r].pc = "save" /\ req[r].user = u
          /\ req'[r] # req[r] =>
            /\ resp'.status = 200
            /\ Cleared(u)'
            /\ \A t \in Tokens : issued[t].uid = u =>
                 (FindByRefreshToken(issued[t].tok) = {})'
            /\ (Cleared(u) => users' = users)
     /\ \A r \in Reqs, t \in Tokens :
          RefreshFind(r, t) /\ Cleared(issued[t].uid) => resp'.status = 401]_vars

\* A user who held a refresh token has just been logged out.
C7_Witness ==
  /\ resp.op = "logout" /\ resp.status = 200
  /\ Cleared(resp.user)
  /\ \E t \in Tokens : issued[t].uid = resp.user

\* ---- C8 ------------------------------------------------------------------
\* C8: for a user whose active flag is false neither login with the right
\* password nor refresh-token with the stored, unexpired token is accepted.
C8_InactiveCannotAuthenticate ==
  [][/\ \A r \in Reqs, e \in UserIds, pwOk \in BOOLEAN :
          LoginFind(r, e, pwOk) /\ users[e].exists /\ ~users[e].isActive =>
            resp'.status = 401 /\ req' = req
     /\ \A r \in Reqs, t \in Tokens :
          RefreshFind(r, t) /\ Stored(t) /\ ~users[issued[t].uid].isActive =>
            resp'.status = 401 /\ req' = req]_vars

\* ---- C9 ------------------------------------------------------------------
\* The answers 200 given so far to requests presenting t, and the requests
\* that have looked t up and not answered yet.
Accepted(t) ==
  Cardinality({i \in Tokens : issued[i].by = "refresh" /\ issued[i].from = t})
  + Cardinality({r \in Reqs : req[r].op = "refresh" /\ req[r].pc = "save"
                              /\ req[r].arg = t})

\* C9 as stated: of the POST /refresh-token requests presenting one token T,
\* overlapping or not, at most one answers 200.
C9_Original ==
  \A i, j \in Tokens :
    /\ issued[i].by = "refresh" /\ issued[j].by = "refresh"
    /\ issued[i].from = issued[j].from
    => i = j

\* C9 as amended: rotation is atomic only towards requests that start after
\* its save. Once a request presenting T has saved and answered 200, no
\* lookup of T succeeds, so a request whose lookup follows gets 401; only
\* requests that had looked T up before that save can still answer 200.
C9_NoAcceptAfterSave ==
  [][\A t \in Tokens : Rotated(t) => Accepted(t)' = Accepted(t)]_vars

\* Two overlapping requests presenting T have both answered 200, and a third,
\* started afterwards, is refused.
C9_Witness ==
  /\ resp.op = "refresh" /\ resp.status = 401
  /\ \E i, j \in Tokens :
       /\ i < j
       /\ issued[i].by = "refresh" /\ issued[j].by = "refresh"
       /\ issued[i].from = resp.arg /\ issued[j].from = resp.arg

\* ---- C10 -----------------------------------------------------------------
\* Two answers 200 to requests presenting the same token: i saved first.
RacePair(i, j) ==
  /\ i < j
  /\ issued[i].by = "refresh" /\ issued[j].by = "refresh"
  /\ issued[i].from = issued[j].from

\* C10: two POST /refresh-token requests for one user can both answer 200;
\* then their new refresh tokens differ, the one saved first matches no user
\* from then on, so a request presenting it afterwards gets 401, and the one
\* saved last validates when it is returned.
C10_LostUpdate ==
  /\ [](\A i, j \in Tokens :
         RacePair(i, j) =>
           /\ issued[i].uid = issued[j].uid
           /\ issued[i].tok # issued[j].tok
           /\ FindByRefreshToken(issued[i].tok) = {}
           /\ (resp.out = issued[j].tok =>
                 FindByRefreshToken(issued[j].tok) = {issued[j].uid}))
  /\ [][\A i, j \in Tokens, r \in Reqs :
         RacePair(i, j) /\ RefreshFind(r, issued[i].tok) =>
           resp'.status = 401 /\ req' = req]_vars

\* Both requests have answered 200 and the token saved first is refused.
C10_Witness ==
  \E i, j \in Tokens :
    /\ RacePair(i, j)
    /\ resp.op = "refresh" /\ resp.arg = issued[i].tok /\ resp.status = 401

\* ---- C11 -----------------------------------------------------------------
\* C11: on a route behind protect, a request without an Authorization
\* header, with a header whose scheme is not Bearer, or with a token that
\* fails verification is answered 401 and goes no further: neither the admin
\* gate nor the handler runs for it.
C11_Unauthenticated ==
  [][\A r \in Reqs, o \in AdminRoutes, h \in Headers, t \in UserIds :
       /\ ProtectHeader(r, o, h, t, TRUE)
       /\ (h.scheme # "Bearer" \/ ~AccessTokenVerifies(h.tok))
       => resp'.status = 401 /\ req' = req]_vars

\* ---- C12 -----------------------------------------------------------------
\* C12: a handler that is documented as private or admin-only, or that reads
\* req.user, runs only for a request protect has accepted: whenever
\* updateUserProfile, getUserById, createAd or a handler of an admin route
\* is about to run, the request carries a validated identity.
C12_HandlersBehindProtect ==
  \A r \in Reqs :
    req[r].op \in AdminRoutes \cup OpenRoutes /\ req[r].pc = "handler"
    => req[r].user # NoUser

\* ---- C13 -----------------------------------------------------------------
\* C13: on GET /admin/users, PUT /admin/users/:userId and GET /users, mounted
\* with protect, admin, an authenticated caller is answered 403 exactly when
\* its role is not 'admin'; an admin reaches the handler's result.
C13_AdminOnly ==
  [][\A r \in Reqs :
       /\ req[r].op \in {"adminGetAllUsers", "updateUserRole", "getAllUsers"}
       /\ req[r].pc \in {"admin", "handler"}
       /\ req'[r] = IdleReq
       => (resp'.status = 403) = (req[r].role # "admin")]_vars


\* ---- C14 -----------------------------------------------------------------
\* C14: login answers 401 for an unknown email, a wrong password and an
\* inactive account, the first two with one and the same body; none of the
\* three hands out a token or changes a stored refresh token or expiry. With
\* the right password for an active account it goes on to answer 200 with
\* a refresh token that validates for that user.
C14_Login ==
  [][/\ \A r \in Reqs, e \in UserIds, pwOk \in BOOLEAN :
          LoginFind(r, e, pwOk) =>
            /\ (~users[e].exists \/ ~pwOk =>
                  /\ resp'.status = 401 /\ resp'.msg = "Invalid email or password"
                  /\ resp'.err = "none" /\ resp'.out = NoTok)
            /\ (users[e].exists /\ pwOk /\ ~users[e].isActive =>
                  resp'.status = 401 /\ resp'.out = NoTok)
            /\ (~users[e].exists \/ ~pwOk \/ ~users[e].isActive =>
                  users' = users /\ issued' = issued /\ req' = req)
            /\ (users[e].exists /\ pwOk /\ users[e].isActive =>
                  req'[r].op = "login" /\ req'[r].pc = "save" /\ req'[r].user = e)
     /\ \A r \in Reqs :
          req[r].op = "login" /\ req'[r] # req[r] =>
            /\ resp'.op = "login" /\ resp'.status = 200
            /\ resp'.out # NoTok
            /\ users'[req[r].user].refreshToken = resp'.out
            /\ users'[req[r].user].refreshTokenExpiry > now]_vars

\* A login with the right password for a deactivated account is refused.
C14_Witness ==
  /\ resp.op = "login" /\ resp.status = 401
  /\ resp.msg = "Your account has been deactivated"
  /\ \E t \in Tokens : issued[t].uid = resp.user /\ issued[t].by = "login"

\* ---- C15 -----------------------------------------------------------------
\* The refresh tokens user u was handed.
TokensOf(u) == {t \in Tokens : issued[t].uid = u}

\* C15: refresh-token answers 400 to a body without refreshToken, and one and
\* the same 401 to a token no user stores, to a stored token whose expiry has
\* passed and to a token of a user whose stored token is null; a call that
\* fails leaves every user record as it was and hands out nothing.
C15_RefreshFailures ==
  [][\A r \in Reqs, tok \in Presentable :
       RefreshFind(r, tok) =>
         /\ (tok = NoTok => resp'.status = 400)
         /\ (/\ tok # NoTok
             /\ \/ \A u \in UserIds : users[u].refreshToken # tok
                \/ \E u \in UserIds : /\ users[u].refreshToken = tok
                                      /\ users[u].refreshTokenExpiry <= now
                \/ \E u \in UserIds : tok \in TokensOf(u) /\ users[u].refreshToken = NoTok
             => /\ resp'.status = 401
                /\ resp'.msg = "Invalid or expired refresh token"
                /\ resp'.err = "none" /\ resp'.out = NoTok /\ resp'.user = NoUser)
         /\ (resp'.status \in {400, 401} =>
               users' = users /\ issued' = issued /\ req' = req)]_vars

\* A stored refresh token is presented after its expiry and refused.
C15_Witness ==
  /\ resp.op = "refresh" /\ resp.status = 401
  /\ \E u \in UserIds : /\ users[u].refreshToken = resp.arg
                        /\ users[u].refreshTokenExpiry <= now

\* ---- C16 -----------------------------------------------------------------
\* C16: register with an email that belongs to a user answers 400 and leaves
\* every user record as it was; with a new email it creates that one user,
\* stores a refresh token on it that expires seven days later, and answers
\* 201 with that refresh token.
C16_Register ==
  [][/\ \A r \in Reqs, e \in UserIds :
          RegisterFind(r, e) =>
            /\ (users[e].exists =>
                  resp'.status = 400 /\ users' = users /\ req' = req)
            /\ (~users[e].exists => req'[r].op = "register" /\ req'[r].arg = e)
     /\ \A r \in Reqs :
          req[r].op = "register" /\ req'[r] # req[r] =>
            \/ /\ req[r].pc = "create" /\ req'[r].pc = "save"
               /\ ~users[req[r].arg].exists /\ users'[req[r].arg].exists
               /\ \A u \in UserIds \ {req[r].arg} : users'[u] = users[u]
            \/ /\ req[r].pc = "save"
               /\ resp'.status = 201 /\ resp'.out # NoTok
               /\ users'[req[r].user].refreshToken = resp'.out
               /\ users'[req[r].user].refreshTokenExpiry = now + RefreshTTL]_vars

\* ---- C17 -----------------------------------------------------------------
\* C17: protect and the admin gate change nothing in the store: whether they
\* pass a request on or answer it, every user record (refresh token, expiry,
\* role, active flag), the product and the ad are the same after their step
\* as before it.
C17_GatesReadOnly ==
  [][\/ \E r \in Reqs : /\ req[r].pc = "idle"
                        /\ req'[r].pc \in {"admin", "handler"}
                        /\ req'[r].user # NoUser
     \/ \E r \in Reqs : req[r].pc = "admin" /\ req'[r] # req[r]
     \/ resp'.msg \in {"Not authorized to access this route",
                       "Not authorized, token failed",
                       "User not found or inactive",
                       "Not authorized as an admin"}
     => users' = users /\ product' = product /\ ad' = ad /\ issued' = issued]_vars

\* The admin gate has just refused a caller that protect had accepted.
C17_Witness ==
  /\ resp.status = 403 /\ resp.msg = "Not authorized as an admin"
  /\ resp.user \in UserIds
  /\ users[resp.user].refreshToken # NoTok

\* ---- C18 -----------------------------------------------------------------
\* C18: protect accepts an access token handed to U at time t at every time
\* before t + 1h while U exists and is active, whatever logout, login or
\* refresh of U has happened since, and answers 401 from t + 1h on.
C18_AccessTokenLifetime ==
  [][\A r \in Reqs, at \in Tokens :
       Protect(r, "logout", at, NoUser, TRUE) =>
         LET u == issued[at].uid
         IN /\ (/\ now < issued[at].iat + AccessTTL
                /\ users[u].exists /\ users[u].isActive
                => req'[r].pc = "handler" /\ req'[r].user = u /\ resp' = resp)
            /\ (now >= issued[at].iat + AccessTTL =>
                  resp'.status = 401 /\ req' = req)]_vars

\* One second before the hour is over, an access token is accepted although
\* its user has logged out since.
C18_Witness ==
  /\ now = AccessTTL - 1
  /\ \A t \in Tokens : issued[t].iat = 0
  /\ \E r \in Reqs : /\ req[r].op = "logout" /\ req[r].pc = "handler"
                     /\ Cleared(req[r].user)

\* ---- C19 -----------------------------------------------------------------
\* C19: the caller cannot tell why its access token failed verification:
\* a token that is malformed, one with a bad signature and one that has
\* expired get the same status and the same body, so the answer to one that
\* fails is the answer any other failing token would get.
C19_UniformFailure ==
  [][resp'.msg = "Not authorized, token failed" =>
       /\ resp'.status = 401
       /\ \A at \in Bearers :
            at # NoHeader /\ ~AccessTokenVerifies(at) => VerifyError(at) = resp'.err]_vars

\* ---- C20 -----------------------------------------------------------------
\* C20: cleanup of the external image never fails the operation it belongs
\* to: whether or not the image can be deleted, deleteAd deletes the ad and
\* answers 200, updateAd (its own upload aside) updates the ad and answers
\* 200, and deleteProduct soft-deletes the product and answers 200.
C20_BestEffortCleanup ==
  [][\A r \in Reqs :
       /\ (req[r].op = "deleteAd" /\ req[r].pc = "save" /\ req'[r] # req[r] =>
             resp'.status = 200 /\ ~ad'.exists)
       /\ (/\ req[r].op = "updateAd" /\ req[r].pc = "save" /\ req'[r] # req[r]
           /\ resp'.msg # "Error uploading image to Cloudinary"
           => resp'.status = 200 /\ (ad.exists => ad'.rev # ad.rev))
       /\ (req[r].op = "deleteProduct" /\ req[r].pc = "save" /\ req'[r] # req[r] =>
             resp'.status = 200 /\ ~product'.isActive)]_vars

\* ---- C21 -----------------------------------------------------------------
\* C21: every response of a handler or a gate carries a boolean success
\* field, true exactly on 2xx responses, and every failure response also
\* carries a message field.
C21_Envelope ==
  resp # NoResp =>
    /\ resp.success = IF resp.status \in 200..299 THEN "true" ELSE "false"
    /\ (resp.status \notin 200..299 => resp.msg # "none")

\* ---- C22 -----------------------------------------------------------------
\* C22: in every reachable state the stored refresh token and the stored
\* expiry of a user are both null or both set: register, login and refresh
\* write the two together and logout clears the two together.
C22_TokenAndExpiryPaired ==
  \A u \in UserIds :
    (users[u].refreshToken = NoTok) = (users[u].refreshTokenExpiry = NoDate)

\* One user holds a token and an expiry while another, who had held a
\* token, has logged out and holds neither.
C22_Witness ==
  \E u, v \in UserIds :
    /\ u # v
    /\ users[u].refreshToken # NoTok /\ users[u].refreshTokenExpiry # NoDate
    /\ users[v].exists /\ Cleared(v) /\ TokensOf(v) # {}

\* ---- C23 -----------------------------------------------------------------
\* C23: deleteUser, changeUserRole, updateUserRole and updateUserProfile
\* leave the stored refresh token and expiry of every user as they were;
\* a deactivated user keeps the stored refresh token.
C23_OnlySessionHandlersWriteTokens ==
  [][(\E r \in Reqs :
        /\ req[r].op \in {"deleteUser", "changeUserRole", "updateUserRole",
                          "updateUserProfile"}
        /\ req[r].pc \in {"handler", "save"}
        /\ req'[r] # req[r])
     => \A u \in UserIds :
          /\ users'[u].refreshToken = users[u].refreshToken
          /\ users'[u].refreshTokenExpiry = users[u].refreshTokenExpiry]_vars

\* A user who holds a stored refresh token has just been deactivated and
\* still holds it.
C23_Witness ==
  /\ resp.op = "deleteUser" /\ resp.status = 200
  /\ ~users[resp.arg].isActive
  /\ users[resp.arg].refreshToken # NoTok
  /\ users[resp.arg].refreshTokenExpiry # NoDate

C25_RoleEnumerated ==
  /\ [](\A u \in UserIds : users[u].role \in {"user", "admin"})
  /\ [][\A r \in Reqs, role \in RoleInputs :
         ChangeUserRoleFind(r, role) /\ req[r].role = "admin"
         /\ role \notin {"user", "admin"}
         => resp'.status = 400 /\ users' = users /\ req'[r] = IdleReq]_vars

\* A role outside the two has just been refused, after an earlier request
\* had made a second user an admin.
C25_Witness ==
  /\ resp.op = "changeUserRole" /\ resp.status = 400
  /\ \E u \in UserIds \ {1} : users[u].exists /\ users[u].role = "admin"

\* ---- C26 -----------------------------------------------------------------
\* C26: the gates decide by the role the store holds for the user when the
\* request arrives, not by the role claim of its access token: protect
\* attaches the stored role, and the admin gate answers 403 exactly when that
\* role is not 'admin'. A demoted admin with an unexpired token gets 403, a
\* promoted user with an old token passes.
C26_StoredRoleDecides ==
  [][/\ \A r \in Reqs, at \in Tokens, o \in {"getAllUsers", "changeUserRole"},
           t \in UserIds \cup {NoUser} :
          Protect(r, o, at, t, TRUE) /\ req'[r] # req[r] =>
            /\ req'[r].pc = "admin"
            /\ req'[r].role = users[issued[at].uid].role
     /\ \A r \in Reqs :
          req[r].pc = "admin" /\ req'[r] # req[r] =>
            IF req[r].role = "admin"
              THEN req'[r].pc = "handler" /\ resp' = resp
              ELSE resp'.status = 403 /\ req'[r] = IdleReq]_vars

\* The admin gate has just refused a user all of whose access tokens carry
\* the role claim 'admin'.
C26_Witness ==
  /\ resp.status = 403 /\ resp.msg = "Not authorized as an admin"
  /\ resp.user \in UserIds
  /\ TokensOf(resp.user) # {}
  /\ \A t \in TokensOf(resp.user) : issued[t].role = "admin"

\* ---- C27 -----------------------------------------------------------------
\* C27: no request without an identity and no request of an identity whose
\* stored role is 'user' makes any user an admin: a role becomes 'admin'
\* only in the save of a changeUserRole request that protect had accepted
\* with the stored role 'admin', and changeUserRole never runs for another
\* request.
C27_NoEscalation ==
  /\ [](\A r \in Reqs :
         req[r].op = "changeUserRole" /\ req[r].pc \in {"handler", "save"}
         => req[r].user # NoUser /\ req[r].role = "admin")
  /\ [][\A u \in UserIds :
         users'[u].role = "admin" /\ users[u].role # "admin" =>
           \E r \in Reqs :
             /\ req[r].op = "changeUserRole" /\ req[r].pc = "save"
             /\ req[r].arg = u /\ req[r].role = "admin"
             /\ req'[r] = IdleReq]_vars

\* A user whose stored role is 'user' has asked for a role change and the
\* admin gate has refused; no one but the seeded admin is an admin.
C27_Witness ==
  /\ resp.op = "changeUserRole" /\ resp.status = 403
  /\ resp.user \in UserIds /\ users[resp.user].role = "user"
  /\ \A u \in UserIds \ {1} : users[u].role = "user"

\* ---- C28 -----------------------------------------------------------------
\* C28: logout is final until the next login: once logout has answered 200
\* for U the stored token and expiry of U are null, and they stay null, so no
\* refresh token of U validates, until a login (or the register) of U saves
\* a new pair, whatever refresh-token requests were in flight at the logout.
C28_LogoutFinal ==
  [][/\ \A r \in Reqs, u \in UserIds :
          /\ req[r].op = "logout" /\ req[r].pc = "save" /\ req[r].user = u
          /\ req'[r] # req[r]
          => resp'.status = 200 /\ Cleared(u)'
     /\ \A u \in UserIds :
          Cleared(u) /\ ~Cleared(u)' =>
            \E r \in Reqs :
              /\ req[r].op \in {"login", "register"} /\ req[r].pc = "save"
              /\ req[r].user = u /\ req'[r] = IdleReq]_vars

\* ---- C29 -----------------------------------------------------------------
\* C29: deleteCategory answers 404 for a category that does not exist and
\* 400, leaving the category stored, when at least one product names it;
\* otherwise it removes the category and answers 200, so a category is
\* removed only while no product names it.
C29_DeleteCategory ==
  [][\A r \in Reqs :
       /\ (DeleteCategoryFind(r) /\ ~category.exists =>
             resp'.status = 404 /\ req' = req)
       /\ (req[r].op = "deleteCategory" /\ req[r].pc = "count" /\ req'[r] # req[r] =>
             /\ category' = category
             /\ IF category.products > 0
                  THEN resp'.status = 400 /\ req'[r] = IdleReq
                  ELSE req'[r].pc = "delete")
       /\ (req[r].op = "deleteCategory" /\ req[r].pc = "delete" /\ req'[r] # req[r] =>
             /\ resp'.status = 200 /\ ~category'.exists
             /\ category.products = 0)]_vars

\* ---- C30 -----------------------------------------------------------------
\* The five listings of products.
Listings == {"getAllProducts", "getLatestProducts", "searchProducts",
             "getUserProducts", "getCategoryProducts"}

====
